---- MODULE Spec2Model ----
(***************************************************************************)
(* MatchZoo PairGenerator (matchzoo/generators/pair_generator.py).         *)
(*                                                                         *)
(* A relation row is a record [id_left, id_right, label].  Identifiers are *)
(* small naturals: id_left q stands for 'qid<q>', id_right d for 'did<d>'. *)
(* A data frame is the sequence of its rows in positional order.           *)
(*                                                                         *)
(* np.random, the process-wide generator DataFrame.sample draws from, is   *)
(* a natural number: a draw of one element out of n reads np_random % n    *)
(* and leaves np_random \div n.  Every sequence of draws is thus produced  *)
(* by some generator state, and equal states produce equal draws.          *)
(***************************************************************************)
EXTENDS Integers, Sequences, FiniteSets, TLC

\* ---------------------------------------------------------------- bounds
MaxRows   == 3      \* rows of the input relation
MaxLeft   == 2      \* distinct id_left values
MaxLabel  == 2      \* labels are 0..MaxLabel
MaxNeg    == 2      \* num_neg ranges over 1..MaxNeg
MaxDup    == 2      \* num_dup ranges over 1..MaxDup
MaxSeed   == 4      \* generator states / seeds are 0..MaxSeed-1
MaxBatch  == 2      \* length of an index array
MaxBuilds == 2      \* PairGenerator constructions over the same inputs

VARIABLES
    relation,       \* inputs.relation: the input relation table
    has_label,      \* 'label' in relations.columns
    num_neg,        \* self._num_neg
    num_dup,        \* self._num_dup
    np_random,      \* state of the global generator np.random
    seed,           \* the value np.random was last seeded with
    status,         \* "new", "ready" (constructed) or "raised"
    error,          \* the exception raised by the last construction
    _relation,      \* self._relation: the pair table
    num_pairs,      \* len(generator): number of addressable blocks
    builds,         \* constructions performed so far
    build_log,      \* per construction: generator state and seed at entry, result
    index_array,    \* argument of the last _get_batch_of_transformed_samples
    batch_x,        \* its first result: feature name -> array
    batch_y         \* its second result: the label array

vars == <<relation, has_label, num_neg, num_dup, np_random, seed, status, error,
          _relation, num_pairs, builds, build_log, index_array, batch_x, batch_y>>

\* ------------------------------------------------------- data frames
Row(q, d, l) == [id_left |-> q, id_right |-> d, label |-> l]

\* Frames of exactly n rows; row i carries id_right = i-1, so every
\* (id_left, id_right) pair occurs once, as in a relevance-judgment file.
FramesOfLen(n) ==
    { [i \in 1..n |-> Row(f[i][1], i - 1, f[i][2])] :
        f \in [1..n -> (0..(MaxLeft - 1)) \X (0..MaxLabel)] }

\* The code only compares labels (==, <) and orders the id_left keys, so a
\* relation is enumerated up to order-preserving renaming: the labels in use
\* and the id_left values in use are each 0..k for some k.
InitialSegment(S) == \A v \in S : \A u \in 0..v : u \in S

Canonical(rel) ==
    /\ InitialSegment({ rel[i].label : i \in 1..Len(rel) })
    /\ InitialSegment({ rel[i].id_left : i \in 1..Len(rel) })

Relations ==
    { rel \in UNION { FramesOfLen(n) : n \in 0..MaxRows } : Canonical(rel) }

\* A frame without a label column has no labels to enumerate: its rows carry
\* the placeholder 0, which transform_relation never reads.
Unlabelled == { rel \in Relations : \A i \in 1..Len(rel) : rel[i].label = 0 }

\* inputs.left / inputs.right: feature tables indexed by id, one text column
\* each (the values of the class doctest for qid0 and did0..did2).
text_left(q)  == <<q + 1, q + 2>>
text_right(d) == <<d + 2, d + 3>>

\* relations['label'].astype(self._task.output_dtype): Ranking's output
\* dtype is float; the small integer labels keep their value.
AsType(rel) == [i \in 1..Len(rel) |-> [rel[i] EXCEPT !.label = rel[i].label]]

\* Rows of frame s whose label is v, in frame order.
WithLabel(s, v) == SelectSeq(s, LAMBDA r : r.label = v)

\* relations.sort_values('label', ascending=False): rows by descending
\* label, rows of equal label in their original order.
RECURSIVE SortFrom(_, _)
SortFrom(rel, v) ==
    IF v < 0 THEN <<>> ELSE WithLabel(rel, v) \o SortFrom(rel, v - 1)

SortValuesDesc(rel) == SortFrom(rel, MaxLabel)

\* .groupby('id_left'): the group keys in ascending order, each group keeping
\* the order of the sorted frame.
RECURSIVE KeysFrom(_, _)
KeysFrom(rel, q) ==
    IF q >= MaxLeft THEN <<>>
    ELSE (IF \E i \in 1..Len(rel) : rel[i].id_left = q THEN <<q>> ELSE <<>>)
         \o KeysFrom(rel, q + 1)

GroupKeys(rel) == KeysFrom(rel, 0)

\* Variant: no grouping, every key sees the whole frame.
WholeFrame(sorted, q) == sorted

GroupOf(sorted, q) == SelectSeq(sorted, LAMBDA r : r.id_left = q)

\* group.label.unique(): distinct labels in order of first appearance.
RECURSIVE UniqueFrom(_, _, _)
UniqueFrom(group, i, seen) ==
    IF i > Len(group) THEN <<>>
    ELSE IF group[i].label \in seen THEN UniqueFrom(group, i + 1, seen)
    ELSE <<group[i].label>> \o UniqueFrom(group, i + 1, seen \cup {group[i].label})

Unique(group) == UniqueFrom(group, 1, {})

\* Variant: the positives are not duplicated.
RepeatOnce(s, n) == s

\* pd.concat([pos_samples] * n)
RECURSIVE Repeat(_, _)
Repeat(s, n) == IF n <= 0 THEN <<>> ELSE s \o Repeat(s, n - 1)

\* Variant: group[group.label <= label]
LowerOrEqual(group, label) == SelectSeq(group, LAMBDA r : r.label <= label)

\* group[group.label < label]
LowerThan(group, label) == SelectSeq(group, LAMBDA r : r.label < label)

RemoveAt(s, i) == SubSeq(s, 1, i - 1) \o SubSeq(s, i + 1, Len(s))

\* np.random.choice(n, size=k, replace=False), which DataFrame.sample calls
\* on the global generator: k positions drawn one after the other from the
\* positions not drawn yet, each draw consuming generator state.
\* Result: the positions in draw order and the generator state left.
RECURSIVE ChoiceFrom(_, _, _)
ChoiceFrom(remaining, k, rng) ==
    IF k = 0 THEN [idx |-> <<>>, rng |-> rng]
    ELSE LET i    == (rng % Len(remaining)) + 1
             rest == ChoiceFrom(RemoveAt(remaining, i), k - 1,
                                rng \div Len(remaining))
         IN  [idx |-> <<remaining[i]>> \o rest.idx, rng |-> rest.rng]

\* Variant: sample(k, replace=True), every draw from the whole pool.
RECURSIVE ChoiceReplace(_, _, _)
ChoiceReplace(n, k, rng) ==
    IF k = 0 THEN [idx |-> <<>>, rng |-> rng]
    ELSE LET rest == ChoiceReplace(n, k - 1, rng \div n)
         IN  [idx |-> <<(rng % n) + 1>> \o rest.idx, rng |-> rest.rng]

SampleReplace(pool, k, rng) ==
    LET c == ChoiceReplace(Len(pool), k, rng)
    IN  [rows |-> [j \in 1..k |-> pool[c.idx[j]]], rng |-> c.rng]

\* Variant: the draw also depends on how many generators were built before.
SampleAmbient(pool, k, rng) ==
    LET c == ChoiceFrom([i \in 1..Len(pool) |-> i], k, rng + builds)
    IN  [rows |-> [j \in 1..k |-> pool[c.idx[j]]], rng |-> c.rng]

\* neg_samples.sample(k, replace=False) (lines 118-119): the rows of pool at
\* the positions drawn, and the generator state left.
Sample(pool, k, rng) ==
    LET c == ChoiceFrom([i \in 1..Len(pool) |-> i], k, rng)
    IN  [rows |-> [j \in 1..k |-> pool[c.idx[j]]], rng |-> c.rng]

\* Variant: a short pool is sampled with replacement instead of dropped.
EmitBlockPadded(pos_sample, neg_samples, st) ==
    IF Len(neg_samples) >= 1
    THEN LET neg_sample ==
                 IF Len(neg_samples) >= num_neg
                 THEN Sample(neg_samples, num_neg, st.rng)
                 ELSE SampleReplace(neg_samples, num_neg, st.rng)
         IN  [pairs |-> st.pairs \o << <<pos_sample>>, neg_sample.rows >>,
              rng   |-> neg_sample.rng]
    ELSE st

\* Variant: the positive is appended before the pool size is tested.
EmitBlockAlways(pos_sample, neg_samples, st) ==
    IF Len(neg_samples) >= num_neg
    THEN LET neg_sample == Sample(neg_samples, num_neg, st.rng)
         IN  [pairs |-> st.pairs \o << <<pos_sample>>, neg_sample.rows >>,
              rng   |-> neg_sample.rng]
    ELSE [pairs |-> st.pairs \o << <<pos_sample>> >>, rng |-> st.rng]

\* Lines 116-120, one positive sample: with enough negatives, draw num_neg of
\* them and extend pairs by the positive's frame and the negatives' frame;
\* otherwise leave pairs as it is.  st = [pairs, rng].
EmitBlock(pos_sample, neg_samples, st) ==
    IF Len(neg_samples) >= num_neg
    THEN LET neg_sample == Sample(neg_samples, num_neg, st.rng)
         IN  [pairs |-> st.pairs \o << <<pos_sample>>, neg_sample.rows >>,
              rng   |-> neg_sample.rng]
    ELSE st

\* for _, pos_sample in pos_samples.iterrows()
RECURSIVE PosLoop(_, _, _, _)
PosLoop(pos_samples, neg_samples, i, st) ==
    IF i > Len(pos_samples) THEN st
    ELSE PosLoop(pos_samples, neg_samples, i + 1,
                 EmitBlock(pos_samples[i], neg_samples, st))

\* for label in labels (lines 111-120)
RECURSIVE LabelLoop(_, _, _, _)
LabelLoop(group, labels, j, st) ==
    IF j > Len(labels) THEN st
    ELSE LET pos_samples == Repeat(WithLabel(group, labels[j]), num_dup)
             neg_samples == LowerThan(group, labels[j])
         IN  LabelLoop(group, labels, j + 1,
                       PosLoop(pos_samples, neg_samples, 1, st))

\* for idx, group in groups (lines 109-120)
RECURSIVE GroupLoop(_, _, _, _)
GroupLoop(sorted, keys, g, st) ==
    IF g > Len(keys) THEN st
    ELSE LET group == GroupOf(sorted, keys[g])
         IN  GroupLoop(sorted, keys, g + 1,
                       LabelLoop(group, Unique(group), 1, st))

\* Lines 103-120: the list `pairs` and the generator state after the loops.
MakePairs(rel, rng) ==
    LET sorted == SortValuesDesc(AsType(rel))
    IN  GroupLoop(sorted, GroupKeys(sorted), 1, [pairs |-> <<>>, rng |-> rng])

\* pd.concat(frames, ignore_index=True) of a non-empty list of frames.
RECURSIVE Flatten(_)
Flatten(frames) ==
    IF frames = <<>> THEN <<>> ELSE Head(frames) \o Flatten(Tail(frames))

\* transform_relation: [ok, error, table, rng].  It raises when the label
\* column is missing (line 100) and when pd.concat is handed an empty list
\* (line 121: "No objects to concatenate").
TransformRelation(rel, rng) ==
    IF ~has_label
    THEN [ok |-> FALSE, error |-> "label is required", table |-> <<>>, rng |-> rng]
    ELSE LET r == MakePairs(rel, rng)
         IN  IF r.pairs = <<>>
             THEN [ok |-> FALSE, error |-> "No objects to concatenate",
                   table |-> <<>>, rng |-> r.rng]
             ELSE [ok |-> TRUE, error |-> "", table |-> Flatten(r.pairs),
                   rng |-> r.rng]

\* ------------------------------------------------------ batch assembly
\* Variant: the positive row is not counted in the stride.
StepsNeg == num_neg

\* steps = self._num_neg + 1 (line 133)
Steps == num_neg + 1

\* range(item * steps, (item + 1) * steps) as a list
Range(item) == [k \in 1..Steps |-> item * Steps + (k - 1)]

\* Variant: trans_index is assigned, not extended, in the loop.
TransIndexLast(A) == IF A = <<>> THEN <<>> ELSE Range(A[Len(A)])

\* Lines 132-135: the row positions of the blocks of index_array, in order.
RECURSIVE TransIndex(_)
TransIndex(A) ==
    IF A = <<>> THEN <<>> ELSE Range(Head(A)) \o TransIndex(Tail(A))

\* frame.iloc[positions, column]: 0-based positional gather of one column.
ILocLabel(frame, pos)   == [k \in 1..Len(pos) |-> frame[pos[k] + 1].label]
ILocIdLeft(frame, pos)  == [k \in 1..Len(pos) |-> frame[pos[k] + 1].id_left]
ILocIdRight(frame, pos) == [k \in 1..Len(pos) |-> frame[pos[k] + 1].id_right]

\* _get_batch_of_transformed_samples (lines 132-160): [x, y].
GetBatchOfTransformedSamples(A) ==
    LET trans_index == TransIndex(A)
        id_left     == ILocIdLeft(_relation, trans_index)
        id_right    == ILocIdRight(_relation, trans_index)
    IN  [x |-> [text_left  |-> [k \in 1..Len(id_left) |-> text_left(id_left[k])],
                text_right |-> [k \in 1..Len(id_right) |-> text_right(id_right[k])],
                id_left    |-> id_left,
                id_right   |-> id_right],
         y |-> ILocLabel(_relation, trans_index)]

EmptyBatchX == [text_left |-> <<>>, text_right |-> <<>>,
                id_left |-> <<>>, id_right |-> <<>>]

\* Index arrays of at most MaxBatch logical indices below n.
IndexArrays(n) == UNION { [1..m -> 0..(n - 1)] : m \in 0..MaxBatch }

\* ------------------------------------------------------------ actions
Init ==
    /\ has_label \in BOOLEAN
    /\ relation \in (IF has_label THEN Relations ELSE Unlabelled)
    /\ num_neg \in 1..MaxNeg
    /\ num_dup \in 1..MaxDup
    /\ seed \in 0..(MaxSeed - 1)
    /\ np_random = seed
    /\ status = "new"
    /\ error = ""
    /\ _relation = <<>>
    /\ num_pairs = 0
    /\ builds = 0
    /\ build_log = <<>>
    /\ index_array = <<>>
    /\ batch_x = EmptyBatchX
    /\ batch_y = <<>>

\* np.random.seed(s) (line 19)
Seed ==
    \E s \in 0..(MaxSeed - 1) :
        /\ np_random' = s
        /\ seed' = s
        /\ UNCHANGED <<relation, has_label, num_neg, num_dup, status, error,
                       _relation, num_pairs, builds, build_log, index_array,
                       batch_x, batch_y>>

\* PairGenerator(inputs, num_neg, num_dup, ...) (lines 80-87)
Build ==
    /\ LET r == TransformRelation(relation, np_random)
       IN  /\ np_random' = r.rng
           /\ status' = IF r.ok THEN "ready" ELSE "raised"
           /\ error' = r.error
           /\ _relation' = r.table
           /\ num_pairs' = Len(r.table) \div (num_neg + 1)
           /\ build_log' = Append(build_log,
                                  [rng |-> np_random, seed |-> seed,
                                   ok |-> r.ok, table |-> r.table])
    /\ builds' = builds + 1
    /\ index_array' = <<>>
    /\ batch_x' = EmptyBatchX
    /\ batch_y' = <<>>
    /\ UNCHANGED <<relation, has_label, num_neg, num_dup, seed>>

\* The first generator over the inputs.
Construct == status = "new" /\ Build

\* A further, independent generator over the same inputs.
Rebuild == status # "new" /\ builds < MaxBuilds /\ Build

\* generator[i]: a batch for an index array of in-range logical indices.
\* The method assigns nothing to self, so a call's result does not depend on
\* the calls before it: index_array, batch_x and batch_y record one observed
\* call per generator, which reaches every batch any sequence of calls reaches.
GetBatch ==
    /\ status = "ready"
    /\ index_array = <<>>
    /\ \E A \in IndexArrays(num_pairs) :
        LET b == GetBatchOfTransformedSamples(A)
        IN  /\ index_array' = A
            /\ batch_x' = b.x
            /\ batch_y' = b.y
    /\ UNCHANGED <<relation, has_label, num_neg, num_dup, np_random, seed,
                   status, error, _relation, num_pairs, builds, build_log>>

\* The build of one generator, np.random starting in any seeded state.
Next == Construct

Spec == Init /\ [][Next]_vars

\* One generator, built right after np.random.seed(0), and the batches taken
\* from it.
InitBatch == Init /\ seed = 0

NextBatch == Construct \/ GetBatch

SpecBatch == InitBatch /\ [][NextBatch]_vars

\* Successive constructions over the same labelled relation of one query,
\* with np.random.seed calls anywhere in between, and no batches.
InitRebuild ==
    /\ Init
    /\ has_label
    /\ \A i \in 1..Len(relation) : relation[i].id_left = 0

NextRebuild == Seed \/ Construct \/ Rebuild

SpecRebuild == InitRebuild /\ [][NextRebuild]_vars

\* ------------------------------------------------------------- properties
\* Rows per block of the pair table, and its blocks, numbered from 0.
Stride == num_neg + 1
Blocks == 0..((Len(_relation) \div Stride) - 1)

\* Row i (0 = the positive) of block k of the pair table.
At(k, i) == _relation[k * Stride + i + 1]

\* Positions in the input relation of the rows of group g with a label below
\* L, and of those with label L.
Pool(g, L) ==
    { j \in 1..Len(relation) : relation[j].id_left = g /\ relation[j].label < L }

Stratum(g, L) ==
    { j \in 1..Len(relation) : relation[j].id_left = g /\ relation[j].label = L }

\* Blocks whose positive row is in group g with label L.
BlocksOf(g, L) ==
    { k \in Blocks : At(k, 0).id_left = g /\ At(k, 0).label = L }

\* C1: in the pair table a build returns, the first row of every block has a
\* label strictly greater than each of the num_neg rows after it.
StrictDominance ==
    status = "ready" =>
        \A k \in Blocks : \A i \in 1..num_neg : At(k, 0).label > At(k, i).label

\* A block whose two negatives carry different labels, both below the positive's.
StrictDominanceWitness ==
    /\ status = "ready"
    /\ num_neg = 2
    /\ \E k \in Blocks : At(k, 1).label # At(k, 2).label

\* C2: every row of a block has the id_left of the block's positive.
SameGroup ==
    status = "ready" =>
        \A k \in Blocks : \A i \in 0..num_neg : At(k, i).id_left = At(k, 0).id_left

\* A block was built while another group holds a row of lower label than the
\* block's positive.
SameGroupWitness ==
    /\ status = "ready"
    /\ \E k \in Blocks : \E j \in 1..Len(relation) :
           /\ relation[j].id_left # At(k, 0).id_left
           /\ relation[j].label < At(k, 0).label

\* C3: no block's positive comes from a stratum whose group has fewer than
\* num_neg rows of lower label.
StratumDrop ==
    status = "ready" =>
        \A k \in Blocks :
            Cardinality(Pool(At(k, 0).id_left, At(k, 0).label)) >= num_neg

\* A table was returned although some stratum has a non-empty pool that is
\* smaller than num_neg.
StratumDropWitness ==
    /\ status = "ready"
    /\ \E j \in 1..Len(relation) :
           LET n == Cardinality(Pool(relation[j].id_left, relation[j].label))
           IN  0 < n /\ n < num_neg

\* C4: a build over a relation that has a label column never raises, also
\* when every stratum is dropped.
NeverRaises == has_label => status # "raised"

\* C8: the pair table's length is a multiple of num_neg+1, and the block
\* count of the constructor covers every row.
BlockSize ==
    status = "ready" =>
        /\ Len(_relation) % (num_neg + 1) = 0
        /\ num_pairs * (num_neg + 1) = Len(_relation)

\* A table of blocks of three rows, built while other positives were dropped.
BlockSizeWitness ==
    /\ status = "ready"
    /\ num_neg = 2
    /\ num_pairs >= 2
    /\ \E j \in 1..Len(relation) :
           Cardinality(Pool(relation[j].id_left, relation[j].label)) < num_neg

\* The relation of the class doctest: (qid0,did0,0), (qid0,did1,1), (qid0,did2,2).
Doctest == <<Row(0, 0, 0), Row(0, 1, 1), Row(0, 2, 2)>>

\* C9: after a build over a labelled relation, every stratum with at least
\* num_neg rows of lower label has num_dup blocks per row of the stratum and
\* each of its rows is the positive of exactly num_dup blocks; within a group
\* the blocks of a higher label precede those of a lower label; the doctest
\* relation with num_neg = num_dup = 1 gives the label-2 block and then the
\* block (did1, did0).
BlockCount ==
    (has_label /\ status # "new") =>
        /\ \A j \in 1..Len(relation) :
               LET g == relation[j].id_left
                   L == relation[j].label
               IN  Cardinality(Pool(g, L)) >= num_neg =>
                       /\ status = "ready"
                       /\ Cardinality(BlocksOf(g, L))
                              = num_dup * Cardinality(Stratum(g, L))
                       /\ Cardinality({ k \in Blocks : At(k, 0) = relation[j] })
                              = num_dup
        /\ status = "ready" =>
               \A k1 \in Blocks : \A k2 \in Blocks :
                   (k1 < k2 /\ At(k1, 0).id_left = At(k2, 0).id_left)
                       => At(k1, 0).label >= At(k2, 0).label
        /\ (relation = Doctest /\ num_neg = 1 /\ num_dup = 1) =>
               /\ status = "ready"
               /\ Len(_relation) = 4
               /\ At(0, 0) = Row(0, 2, 2)
               /\ At(1, 0) = Row(0, 1, 1)
               /\ At(1, 1) = Row(0, 0, 0)

\* The doctest relation built with every positive duplicated.
BlockCountWitness ==
    /\ status = "ready"
    /\ relation = Doctest
    /\ num_neg = 1
    /\ num_dup = 2
    /\ Len(_relation) = 8

\* C10: the negatives of a block are pairwise distinct rows of the relation,
\* each from the pool of its positive, and row 0 is a row of the relation.
WithoutReplacement ==
    status = "ready" =>
        \A k \in Blocks :
            /\ \E j \in 1..Len(relation) : relation[j] = At(k, 0)
            /\ \A i \in 1..num_neg :
                   \E j \in Pool(At(k, 0).id_left, At(k, 0).label) :
                       relation[j] = At(k, i)
            /\ \A i1 \in 1..num_neg : \A i2 \in 1..num_neg :
                   i1 # i2 => At(k, i1) # At(k, i2)

\* Two negatives drawn from a pool of two, the later row of the relation first.
WithoutReplacementWitness ==
    /\ status = "ready"
    /\ num_neg = 2
    /\ \E k \in Blocks : At(k, 1).id_right > At(k, 2).id_right

\* C5: the batch of an index array is, column by column, the batch of any
\* prefix followed by the batch of the rest.
BlockAtomic ==
    status = "ready" =>
        \A p \in 0..Len(index_array) :
            LET b1 == GetBatchOfTransformedSamples(SubSeq(index_array, 1, p))
                b2 == GetBatchOfTransformedSamples(
                          SubSeq(index_array, p + 1, Len(index_array)))
            IN  /\ batch_y = b1.y \o b2.y
                /\ batch_x.id_left = b1.x.id_left \o b2.x.id_left
                /\ batch_x.id_right = b1.x.id_right \o b2.x.id_right
                /\ batch_x.text_left = b1.x.text_left \o b2.x.text_left
                /\ batch_x.text_right = b1.x.text_right \o b2.x.text_right

\* A batch of two blocks asked for in descending order.
BlockAtomicWitness ==
    /\ status = "ready"
    /\ Len(index_array) = 2
    /\ index_array[1] > index_array[2]
    /\ Len(batch_y) > 0

\* C6: every array of the batch has len(index_array) * (num_neg+1) entries,
\* and entry j is taken from pair-table row
\* index_array[j div stride] * stride + (j mod stride).
OrderPreserving ==
    status = "ready" =>
        LET n == Len(index_array) * (num_neg + 1)
        IN  /\ Len(batch_y) = n
            /\ Len(batch_x.id_left) = n
            /\ Len(batch_x.id_right) = n
            /\ Len(batch_x.text_left) = n
            /\ Len(batch_x.text_right) = n
            /\ \A j \in 0..(n - 1) :
                   LET row == _relation[index_array[(j \div Stride) + 1] * Stride
                                        + (j % Stride) + 1]
                   IN  /\ batch_y[j + 1] = row.label
                       /\ batch_x.id_left[j + 1] = row.id_left
                       /\ batch_x.id_right[j + 1] = row.id_right
                       /\ batch_x.text_left[j + 1] = text_left(row.id_left)
                       /\ batch_x.text_right[j + 1] = text_right(row.id_right)

\* A batch that asks twice for the same block, other than the first.
OrderPreservingWitness ==
    /\ status = "ready"
    /\ Len(index_array) = 2
    /\ index_array[1] = index_array[2]
    /\ index_array[1] > 0
    /\ Len(batch_y) = 2 * (num_neg + 1)

====
